---- MODULE Spec2Model ----
(***************************************************************************)
(* generate_icons.py: one source image is decoded, resized to five launcher *)
(* icon sizes, each also saved with a circular alpha mask, resized once     *)
(* more to the adaptive foreground, and a stale XML drawable is removed.    *)
(*                                                                          *)
(* Images are modelled on sources of one colour: the resampling filter      *)
(* maps such an image to an image of that colour, so an RGBA image is its   *)
(* size, its colour, its alpha band and the detail it can still carry (the  *)
(* smallest width and height it has been resampled through).  An alpha band *)
(* is a fill value plus, per row, the span of pixels drawn with the ink.    *)
(* Pixels are (x, y) with 0 <= x < width, 0 <= y < height.                  *)
(***************************************************************************)
EXTENDS Integers, Sequences, FiniteSets, TLC

\* How many times in succession the script is run.
MaxRuns == 2

----------------------------------------------------------------------------
\* Constants of the script

\* sizes.items(), in the dict's insertion order
SizesItems == <<"mdpi", "hdpi", "xhdpi", "xxhdpi", "xxxhdpi">>

Densities == {SizesItems[k] : k \in 1..Len(SizesItems)}

sizes == [density \in Densities |->
            CASE density = "mdpi" -> 48
              [] density = "hdpi" -> 72
              [] density = "xhdpi" -> 96
              [] density = "xxhdpi" -> 144
              [] density = "xxxhdpi" -> 192]

fg_size == 432

res_dir == "res"

fg_dir == "drawable"

\* a bucket's directory shared with every other bucket's
MipmapDirShared(density) == "mipmap-mdpi"

MipmapDir(density) ==
    CASE density = "mdpi" -> "mipmap-mdpi"
      [] density = "hdpi" -> "mipmap-hdpi"
      [] density = "xhdpi" -> "mipmap-xhdpi"
      [] density = "xxhdpi" -> "mipmap-xxhdpi"
      [] density = "xxxhdpi" -> "mipmap-xxxhdpi"

LauncherPath(density) == <<MipmapDir(density), "ic_launcher.png">>

RoundPath(density) == <<MipmapDir(density), "ic_launcher_round.png">>

ForegroundPath == <<fg_dir, "ic_launcher_foreground.png">>

Paths == {LauncherPath(d) : d \in Densities} \cup {RoundPath(d) : d \in Densities}
         \cup {ForegroundPath}

OutputDirs == {MipmapDir(d) : d \in Densities} \cup {fg_dir}

----------------------------------------------------------------------------
\* Images

Min(a, b) == IF a < b THEN a ELSE b

Max(a, b) == IF a > b THEN a ELSE b

\* An optional value: <<>> is none, <<v>> is v.
None == <<>>

Some(v) == <<v>>

\* Image.new("L", size, color)
NewL(size, color) == [size |-> size, fill |-> color, ink |-> color, rows |-> <<>>]

\* The value of band m at pixel (x, y).
BandAt(m, x, y) ==
    IF m.rows # <<>> /\ m.rows[y + 1][1] <= x /\ x <= m.rows[y + 1][2]
    THEN m.ink
    ELSE m.fill

AlphaAt(im, x, y) == BandAt(im.alpha, x, y)

\* RGBA -> RGBa, one channel: the colour premultiplied by the alpha
Premultiply(c, a) == LET t == c * a + 128 IN ((t \div 256) + t) \div 256

\* RGBa -> RGBA, one channel
Unpremultiply(c, a) ==
    IF a = 255 \/ a = 0 THEN c ELSE Min(255, (255 * c) \div a)

\* Image.thumbnail's size: the aspect ratio kept, never larger than the image
thumbnail(im, size) ==
    LET w == im.size[1]
        h == im.size[2]
        tw == IF w * size[2] >= h * size[1]
              THEN Min(w, size[1])
              ELSE Max(1, (w * Min(h, size[2])) \div h)
        th == IF w * size[2] >= h * size[1]
              THEN Max(1, (h * Min(w, size[1])) \div w)
              ELSE Min(h, size[2])
    IN  [im EXCEPT !.size = <<tw, th>>,
                   !.detail = <<Min(im.detail[1], tw), Min(im.detail[2], th)>>,
                   !.alpha = NewL(<<tw, th>>, im.alpha.fill)]

\* img.resize(size, Image.Resampling.LANCZOS) of an RGBA image whose alpha
\* band is one value: a copy when the size is the image's, else the image is
\* premultiplied, resampled and converted back.
resize(im, size) ==
    IF im.size = size
    THEN im
    ELSE LET a == im.alpha.fill
         IN  [size |-> size,
              detail |-> <<Min(im.detail[1], size[1]), Min(im.detail[2], size[2])>>,
              rgb |-> [k \in 1..3 |-> Unpremultiply(Premultiply(im.rgb[k], a), a)],
              alpha |-> NewL(size, a)]

Abs(n) == IF n < 0 THEN -n ELSE n

\* ImageDraw's ellipse, on coordinates doubled about the centre of the
\* bounding box: how far point (x, y) is from the ellipse of diameters a, b
quarter_delta(a, b, x, y) == Abs(a * a * y * y + b * b * x * x - a * a * b * b)

\* the point that follows (cx, cy) on the quarter of the outline that runs
\* from (a, b % 2) to (a % 2, b): up, diagonal or left, the nearest to the
\* ellipse, the earlier of two equally near
quarter_next(a, b, cx, cy) ==
    LET up == quarter_delta(a, b, cx, cy + 2)
        diag == quarter_delta(a, b, cx - 2, cy + 2)
        left == quarter_delta(a, b, cx - 2, cy)
    IN  IF cx > 1
        THEN IF up > diag
             THEN IF diag > left THEN <<cx - 2, cy>> ELSE <<cx - 2, cy + 2>>
             ELSE IF up > left THEN <<cx - 2, cy>> ELSE <<cx, cy + 2>>
        ELSE <<cx, cy + 2>>

\* one step of the walk along the quarter from (cx, cy), which ends at
\* (a % 2, b); rows holds the outline's first (outermost) x on each row
\* cy = b % 2, b % 2 + 2, ... reached so far
quarter_step(a, b, st) ==
    IF st.cx = a % 2 /\ st.cy = b
    THEN st
    ELSE LET n == quarter_next(a, b, st.cx, st.cy)
         IN  [cx |-> n[1], cy |-> n[2],
              rows |-> IF n[2] > st.cy THEN Append(st.rows, n[1]) ELSE st.rows]

\* n steps of the walk
RECURSIVE quarter_walk(_, _, _, _)
quarter_walk(a, b, st, n) ==
    IF n = 0 THEN st
    ELSE IF n = 1 THEN quarter_step(a, b, st)
    ELSE LET half == quarter_walk(a, b, st, n \div 2)
         IN  IF half.cx = a % 2 /\ half.cy = b
             THEN half
             ELSE quarter_walk(a, b, half, n - (n \div 2))

\* the whole quarter: every step moves left or up by 2, so a + b steps end it
quarter_rows(a, b) ==
    quarter_walk(a, b, [cx |-> a, cy |-> b % 2, rows |-> <<a>>], a + b).rows

\* hline: the span x0..x1 clipped to the image's width, <<1, 0>> when empty
hline(width, x0, x1) ==
    IF x0 >= width \/ x1 < 0 THEN <<1, 0>> ELSE <<Max(x0, 0), Min(x1, width - 1)>>

\* draw.ellipse(box, fill) on band m: box is (x0, y0, x1, y1), and the
\* ellipse drawn spans x0..x1 and y0..y1, both ends included
ellipse(m, box, fill) ==
    LET a == box[3] - box[1]
        b == box[4] - box[2]
        outer == quarter_rows(a, b)
        Row(j) == LET Y == Abs(2 * (j - box[2]) - b)
                      r == outer[((Y - (b % 2)) \div 2) + 1]
                  IN  IF Y > b
                      THEN <<1, 0>>
                      ELSE hline(m.size[1], box[1] + ((a - r) \div 2),
                                 box[1] + ((a + r) \div 2))
    IN  [m EXCEPT !.ink = fill, !.rows = [j \in 1..m.size[2] |-> Row(j - 1)]]

\* result.putalpha(mask): the mask becomes the image's alpha band
putalpha(im, mask) == [im EXCEPT !.alpha = mask]

create_round_crop(im) ==
    LET mask == NewL(im.size, 0)
        drawn == ellipse(mask, <<0, 0>> \o im.size, 255)
        result == im
    IN  putalpha(result, drawn)

----------------------------------------------------------------------------
\* The source file

\* what lies at source_image_path: nothing, bytes that are no image, or an
\* image of one colour in mode RGB or RGBA
SourceFile(kind, mode, size, rgb, a) ==
    [kind |-> kind, mode |-> mode, size |-> size, rgb |-> rgb, a |-> a]

SourceFiles ==
    { SourceFile("missing", "RGB", <<1, 1>>, <<0, 0, 0>>, 255),
      SourceFile("garbage", "RGB", <<1, 1>>, <<0, 0, 0>>, 255),
      SourceFile("image", "RGB", <<16, 16>>, <<200, 120, 40>>, 255),
      SourceFile("image", "RGB", <<48, 48>>, <<200, 120, 40>>, 255),
      SourceFile("image", "RGBA", <<300, 200>>, <<200, 120, 40>>, 255),
      SourceFile("image", "RGB", <<432, 432>>, <<10, 20, 30>>, 255),
      SourceFile("image", "RGB", <<1024, 1024>>, <<200, 120, 40>>, 255),
      SourceFile("image", "RGBA", <<1024, 1024>>, <<200, 120, 40>>, 128),
      SourceFile("image", "RGBA", <<512, 512>>, <<200, 120, 40>>, 0),
      SourceFile("image", "RGBA", <<24, 100>>, <<7, 7, 7>>, 77) }

Decodable(file) == file.kind = "image"

\* Image.open(source_image_path).convert("RGBA") of a decodable file: an
\* image without an alpha band gets an opaque one
Open(file) ==
    [size |-> file.size,
     detail |-> file.size,
     rgb |-> file.rgb,
     alpha |-> NewL(file.size, IF file.mode = "RGBA" THEN file.a ELSE 255)]

----------------------------------------------------------------------------
\* The output tree under res_dir

XmlName == "ic_launcher_foreground.xml"

\* what a write that failed part-way leaves behind: a file that is no image
Truncated ==
    [size |-> <<0, 0>>, detail |-> <<0, 0>>, rgb |-> <<0, 0, 0>>,
     alpha |-> NewL(<<0, 0>>, 0)]

\* a launcher icon left by an earlier build
Stale ==
    [size |-> <<108, 108>>, detail |-> <<108, 108>>, rgb |-> <<1, 2, 3>>,
     alpha |-> NewL(<<108, 108>>, 255)]

Tree(dirs, files, xml) == [dirs |-> dirs, files |-> files, xml |-> xml]

\* the trees a first run may find: nothing, res_dir alone, every directory
\* without files, part of an earlier build, and a whole earlier build with
\* the XML foreground
InitialTrees ==
    { Tree({}, [p \in Paths |-> None], FALSE),
      Tree({res_dir}, [p \in Paths |-> None], FALSE),
      Tree({res_dir} \cup OutputDirs, [p \in Paths |-> None], FALSE),
      Tree({res_dir, MipmapDir("hdpi"), fg_dir},
           [p \in Paths |-> IF p = LauncherPath("hdpi") THEN Some(Stale) ELSE None],
           TRUE),
      Tree({res_dir} \cup OutputDirs, [p \in Paths |-> Some(Stale)], TRUE) }

\* os.makedirs(dir, exist_ok=True)
makedirs(t, dir) == [t EXCEPT !.dirs = @ \cup {res_dir, dir}]

\* os.makedirs raising: nothing was made, or res_dir was and dir was not
makedirs_raises(t, dir) == {t, [t EXCEPT !.dirs = @ \cup {res_dir}]}

\* image.save(path): the file is created or overwritten
save(t, path, im) == [t EXCEPT !.files[path] = Some(im)]

\* Image.save raising, and every file of the tree removed with it
save_raises_rollback(t, path) == {[t EXCEPT !.files = [p \in Paths |-> None]]}

\* Image.save raising: the file could not be opened, or was opened (and so
\* emptied) and not written whole
save_raises(t, path) == {t, [t EXCEPT !.files[path] = Some(Truncated)]}

\* os.remove(xml_path)
remove(t) == [t EXCEPT !.xml = FALSE]

----------------------------------------------------------------------------
\* The run

VARIABLES
    source,     \* the file at source_image_path
    order,      \* the order in which sizes.items() yields the buckets
    tree,       \* the directories and files under res_dir
    pc,         \* the statement the script is at
    todo,       \* the buckets the loop has yet to handle; density is its head
    img,        \* the loaded source image
    resized,    \* the loop's resized image
    round_img,  \* the loop's round image
    fg_img,     \* the foreground image
    out,        \* what has been printed
    run,        \* which run this is
    trace,      \* the steps this run has completed
    start,      \* the tree this run started from
    first       \* the tree the first run left

vars == <<source, order, tree, pc, todo, img, resized, round_img, fg_img,
          out, run, trace, start, first>>

Message == "Icons generated successfully!"

Step(op, dir, name) == <<op, dir, name>>

InitWith(sources, orders, trees) ==
    /\ source \in sources
    /\ order \in orders
    /\ tree \in trees
    /\ pc = "open"
    /\ todo = <<>>
    /\ img = None
    /\ resized = None
    /\ round_img = None
    /\ fg_img = None
    /\ out = <<>>
    /\ run = 1
    /\ trace = <<>>
    /\ start = tree
    /\ first = None

Init == InitWith(SourceFiles, {SizesItems}, InitialTrees)

Raise ==
    /\ pc' = "aborted"
    /\ UNCHANGED <<source, order, todo, out, run, trace, start, first>>

Goto(to) ==
    /\ pc' = to
    /\ UNCHANGED <<source, order, out, run, start, first>>

\* the source opened only when the loop first needs it
LoadLazy ==
    /\ pc = "open"
    /\ img' = IF Decodable(source) THEN Some(Open(source)) ELSE None
    /\ todo' = order
    /\ trace' = Append(trace, Step("open", "", ""))
    /\ Goto("makedirs")
    /\ UNCHANGED <<tree, resized, round_img, fg_img>>

\* the source taken from the largest launcher icon already in the tree
LoadFromOutput ==
    /\ pc = "open"
    /\ Decodable(source)
    /\ img' = IF tree.files[LauncherPath("xxxhdpi")] = None
              THEN Some(Open(source))
              ELSE tree.files[LauncherPath("xxxhdpi")]
    /\ todo' = order
    /\ trace' = Append(trace, Step("open", "", ""))
    /\ Goto("makedirs")
    /\ UNCHANGED <<tree, resized, round_img, fg_img>>

\* img = Image.open(source_image_path).convert("RGBA")
Load ==
    /\ pc = "open"
    /\ Decodable(source)
    /\ img' = Some(Open(source))
    /\ todo' = order
    /\ trace' = Append(trace, Step("open", "", ""))
    /\ Goto("makedirs")
    /\ UNCHANGED <<tree, resized, round_img, fg_img>>

\* Image.open or convert raising: no file, or no image in it
LoadRaises ==
    /\ pc = "open"
    /\ ~Decodable(source)
    /\ Raise
    /\ UNCHANGED <<tree, img, resized, round_img, fg_img>>

density == Head(todo)

mipmap_dir == MipmapDir(density)

\* os.makedirs(mipmap_dir, exist_ok=True)
Makedirs ==
    /\ pc = "makedirs"
    /\ tree' = makedirs(tree, mipmap_dir)
    /\ trace' = Append(trace, Step("makedirs", mipmap_dir, ""))
    /\ Goto("save")
    /\ UNCHANGED <<todo, img, resized, round_img, fg_img>>

MakedirsRaises ==
    /\ pc = "makedirs"
    /\ tree' \in makedirs_raises(tree, mipmap_dir)
    /\ Raise
    /\ UNCHANGED <<img, resized, round_img, fg_img>>

size == sizes[density]

\* the bucket's image made by thumbnail instead of resize
ThumbnailSave ==
    /\ pc = "save"
    /\ img # None
    /\ resized' = Some(thumbnail(img[1], <<size, size>>))
    /\ tree' = save(tree, LauncherPath(density), resized'[1])
    /\ trace' = Append(trace, Step("save", mipmap_dir, "ic_launcher.png"))
    /\ Goto("round")
    /\ UNCHANGED <<todo, img, round_img, fg_img>>

\* resized = img.resize((size, size), Image.Resampling.LANCZOS)
\* resized.save(os.path.join(mipmap_dir, "ic_launcher.png"))
ResizeSave ==
    /\ pc = "save"
    /\ img # None
    /\ resized' = Some(resize(img[1], <<size, size>>))
    /\ tree' = save(tree, LauncherPath(density), resized'[1])
    /\ trace' = Append(trace, Step("save", mipmap_dir, "ic_launcher.png"))
    /\ Goto("round")
    /\ UNCHANGED <<todo, img, round_img, fg_img>>

ResizeSaveRaises ==
    /\ pc = "save"
    /\ img # None
    /\ resized' = Some(resize(img[1], <<size, size>>))
    /\ tree' \in save_raises(tree, LauncherPath(density))
    /\ Raise
    /\ UNCHANGED <<img, round_img, fg_img>>

\* the statements that follow the loop run inside it, after the first bucket
AfterBucketInsideLoop == "fg_makedirs"

\* the loop's next statement: the next bucket, or what follows the loop
AfterBucket == IF Tail(todo) = <<>> THEN "fg_makedirs" ELSE "makedirs"

\* round_img = create_round_crop(resized)
\* round_img.save(os.path.join(mipmap_dir, "ic_launcher_round.png"))
RoundSave ==
    /\ pc = "round"
    /\ round_img' = Some(create_round_crop(resized[1]))
    /\ tree' = save(tree, RoundPath(density), round_img'[1])
    /\ trace' = Append(trace, Step("save", mipmap_dir, "ic_launcher_round.png"))
    /\ todo' = Tail(todo)
    /\ Goto(AfterBucket)
    /\ UNCHANGED <<img, resized, fg_img>>

RoundSaveRaises ==
    /\ pc = "round"
    /\ round_img' = Some(create_round_crop(resized[1]))
    /\ tree' \in save_raises(tree, RoundPath(density))
    /\ Raise
    /\ UNCHANGED <<img, resized, fg_img>>

\* os.makedirs(fg_dir, exist_ok=True)
FgMakedirs ==
    /\ pc = "fg_makedirs"
    /\ tree' = makedirs(tree, fg_dir)
    /\ trace' = Append(trace, Step("makedirs", fg_dir, ""))
    /\ Goto("fg_save")
    /\ UNCHANGED <<todo, img, resized, round_img, fg_img>>

FgMakedirsRaises ==
    /\ pc = "fg_makedirs"
    /\ tree' \in makedirs_raises(tree, fg_dir)
    /\ Raise
    /\ UNCHANGED <<img, resized, round_img, fg_img>>

\* the foreground resized from the last bucket's image
FgSaveFromBucket ==
    /\ pc = "fg_save"
    /\ img # None
    /\ fg_img' = Some(resize(resized[1], <<fg_size, fg_size>>))
    /\ tree' = save(tree, ForegroundPath, fg_img'[1])
    /\ trace' = Append(trace, Step("save", fg_dir, "ic_launcher_foreground.png"))
    /\ Goto("cleanup")
    /\ UNCHANGED <<todo, img, resized, round_img>>

\* fg_img = img.resize((fg_size, fg_size), Image.Resampling.LANCZOS)
\* fg_img.save(os.path.join(fg_dir, "ic_launcher_foreground.png"))
FgSave ==
    /\ pc = "fg_save"
    /\ img # None
    /\ fg_img' = Some(resize(img[1], <<fg_size, fg_size>>))
    /\ tree' = save(tree, ForegroundPath, fg_img'[1])
    /\ trace' = Append(trace, Step("save", fg_dir, "ic_launcher_foreground.png"))
    /\ Goto("cleanup")
    /\ UNCHANGED <<todo, img, resized, round_img>>

FgSaveRaises ==
    /\ pc = "fg_save"
    /\ img # None
    /\ fg_img' = Some(resize(img[1], <<fg_size, fg_size>>))
    /\ tree' \in save_raises(tree, ForegroundPath)
    /\ Raise
    /\ UNCHANGED <<img, resized, round_img>>

\* the XML left in place when it cannot be removed, and the run going on
CleanupSwallows ==
    /\ pc = "cleanup"
    /\ tree' \in {tree, remove(tree)}
    /\ trace' = Append(trace, Step("cleanup", fg_dir, XmlName))
    /\ Goto("print")
    /\ UNCHANGED <<todo, img, resized, round_img, fg_img>>

\* if os.path.exists(xml_path): os.remove(xml_path)
Cleanup ==
    /\ pc = "cleanup"
    /\ tree' = IF tree.xml THEN remove(tree) ELSE tree
    /\ trace' = Append(trace, Step("cleanup", fg_dir, XmlName))
    /\ Goto("print")
    /\ UNCHANGED <<todo, img, resized, round_img, fg_img>>

\* os.remove raising: the XML is there and cannot be removed
CleanupRaises ==
    /\ pc = "cleanup"
    /\ tree.xml
    /\ Raise
    /\ UNCHANGED <<tree, img, resized, round_img, fg_img>>

\* print("Icons generated successfully!")
PrintDone ==
    /\ pc = "print"
    /\ out' = Append(out, Message)
    /\ trace' = Append(trace, Step("print", "", ""))
    /\ pc' = "done"
    /\ UNCHANGED <<source, order, tree, todo, img, resized, round_img, fg_img,
                   run, start, first>>

\* the script run again on what the run before it left, the source unchanged
Rerun ==
    /\ pc = "done"
    /\ run < MaxRuns
    /\ run' = run + 1
    /\ pc' = "open"
    /\ todo' = <<>>
    /\ img' = None
    /\ resized' = None
    /\ round_img' = None
    /\ fg_img' = None
    /\ trace' = <<>>
    /\ start' = tree
    /\ first' = IF run = 1 THEN Some(tree) ELSE first
    /\ UNCHANGED <<source, order, tree, out>>

Next ==
    \/ Load
    \/ LoadRaises
    \/ Makedirs
    \/ MakedirsRaises
    \/ ResizeSave
    \/ ResizeSaveRaises
    \/ RoundSave
    \/ RoundSaveRaises
    \/ FgMakedirs
    \/ FgMakedirsRaises
    \/ FgSave
    \/ FgSaveRaises
    \/ Cleanup
    \/ CleanupRaises
    \/ PrintDone
    \/ Rerun

Spec == Init /\ [][Next]_vars

\* the buckets in every order
Orders ==
    {o \in [1..Len(SizesItems) -> Densities] :
        \A j, k \in 1..Len(SizesItems) : o[j] = o[k] => j = k}

InitPerm ==
    InitWith({f \in SourceFiles :
                 \/ f.kind = "missing"
                 \/ f.size \in {<<1024, 1024>>, <<24, 100>>} /\ f.a # 128},
             Orders,
             {t \in InitialTrees : t.dirs = {} \/ t.xml})

\* the script with the buckets taken in any order
SpecPerm == InitPerm /\ [][Next]_vars

----------------------------------------------------------------------------
\* What a run is to do, stated apart from the run

\* the steps of a whole run, in the order of the script's statements
StepsOf(o) ==
    LET n == Len(o)
        bucket(k) == MipmapDir(o[((k - 2) \div 3) + 1])
    IN  [k \in 1..(3 * n + 5) |->
            IF k = 1 THEN Step("open", "", "")
            ELSE IF k <= 3 * n + 1
            THEN CASE (k - 2) % 3 = 0 -> Step("makedirs", bucket(k), "")
                   [] (k - 2) % 3 = 1 -> Step("save", bucket(k), "ic_launcher.png")
                   [] (k - 2) % 3 = 2 -> Step("save", bucket(k), "ic_launcher_round.png")
            ELSE IF k = 3 * n + 2 THEN Step("makedirs", fg_dir, "")
            ELSE IF k = 3 * n + 3 THEN Step("save", fg_dir, "ic_launcher_foreground.png")
            ELSE IF k = 3 * n + 4 THEN Step("cleanup", fg_dir, XmlName)
            ELSE Step("print", "", "")]

\* one bucket's three statements
BucketEffect(t, im, d) ==
    LET rs == resize(im, <<sizes[d], sizes[d]>>)
    IN  save(save(makedirs(t, MipmapDir(d)), LauncherPath(d), rs),
             RoundPath(d), create_round_crop(rs))

RECURSIVE RunBuckets(_, _, _)
RunBuckets(t, im, ds) ==
    IF ds = <<>> THEN t ELSE RunBuckets(BucketEffect(t, im, Head(ds)), im, Tail(ds))

\* the tree a whole run leaves, the buckets taken in the dict's order
FinalTree(t, file) ==
    LET im == Open(file)
        t1 == RunBuckets(t, im, SizesItems)
        t2 == save(makedirs(t1, fg_dir), ForegroundPath, resize(im, <<fg_size, fg_size>>))
    IN  IF t2.xml THEN remove(t2) ELSE t2

Written(p) == tree.files[p] # None /\ tree.files[p] = FinalTree(start, source).files[p]

File(p) == tree.files[p][1]

----------------------------------------------------------------------------
\* C1: after a run that completes, every bucket's ic_launcher.png exists in
\* its mipmap directory and its width and height are the bucket's edge
\* length, whatever the size of the source image.
C1_LauncherSizes ==
    pc = "done" =>
        \A d \in Densities :
            /\ MipmapDir(d) \in tree.dirs
            /\ tree.files[LauncherPath(d)] # None
            /\ File(LauncherPath(d)).size = <<sizes[d], sizes[d]>>

\* a run completed on a source that is not square and smaller than some
\* buckets, larger than others
C1_Witness ==
    /\ pc = "done"
    /\ source.size = <<300, 200>>
    /\ File(LauncherPath("mdpi")).size = <<48, 48>>
    /\ File(LauncherPath("xxxhdpi")).size = <<192, 192>>

\* Pixel (x, y) of an image of edge s lies strictly outside the circle
\* inscribed in the image: the centre of the pixel is farther from the centre
\* of the image than s / 2 (all lengths doubled).
OutsideInscribed(s, x, y) ==
    (2 * x + 1 - s) * (2 * x + 1 - s) + (2 * y + 1 - s) * (2 * y + 1 - s) > s * s

\* C2: after a run that completes, every bucket's ic_launcher_round.png has
\* the width and height of the bucket's ic_launcher.png, alpha 0 at every
\* pixel strictly outside the inscribed circle, and alpha above 0 at the
\* centre.
C2_RoundOutsideTransparent ==
    pc = "done" =>
        \A d \in Densities :
            LET s == sizes[d]
                rnd == File(RoundPath(d))
            IN  /\ rnd.size = File(LauncherPath(d)).size
                /\ AlphaAt(rnd, s \div 2, s \div 2) > 0
                /\ \A y \in 0..(s - 1) : \A x \in 0..(s - 1) :
                       OutsideInscribed(s, x, y) => AlphaAt(rnd, x, y) = 0

\* Pixel (x, y) lies in the ellipse drawn into the round image's mask.
InDrawn(rnd, x, y) ==
    rnd.alpha.rows[y + 1][1] <= x /\ x <= rnd.alpha.rows[y + 1][2]

\* C3: the round image is the resized image it was built from, but for the
\* pixels outside the circle, which are fully transparent: inside the circle
\* the colour and the alpha are the resized image's, so a transparency the
\* resized image has there is kept.  The circle is taken to be the ellipse
\* the code draws, so that how its edge is rasterised plays no part.
C3_RoundKeepsResized ==
    pc = "done" =>
        \A d \in Densities :
            LET s == sizes[d]
                std == File(LauncherPath(d))
                rnd == File(RoundPath(d))
            IN  /\ rnd.rgb = std.rgb
                /\ \A y \in 0..(s - 1) : \A x \in 0..(s - 1) :
                       IF InDrawn(rnd, x, y)
                       THEN AlphaAt(rnd, x, y) = AlphaAt(std, x, y)
                       ELSE AlphaAt(rnd, x, y) = 0

\* C4: after a run that completes, ic_launcher_foreground.png exists in the
\* drawable directory, is fg_size by fg_size whatever the size of the source,
\* and is the resize of the loaded source image, not of a bucket's image.
C4_ForegroundFromSource ==
    pc = "done" =>
        /\ fg_dir \in tree.dirs
        /\ tree.files[ForegroundPath] # None
        /\ File(ForegroundPath).size = <<fg_size, fg_size>>
        /\ File(ForegroundPath) = resize(Open(source), <<fg_size, fg_size>>)

\* a run completed on a source larger than the foreground, which keeps more
\* detail than any bucket's image could give it
C4_Witness ==
    /\ pc = "done"
    /\ source.size = <<1024, 1024>>
    /\ File(ForegroundPath).size = <<432, 432>>
    /\ File(ForegroundPath).detail = <<432, 432>>
    /\ File(LauncherPath("xxxhdpi")).detail = <<192, 192>>

\* the statement this run stopped at or is about to run
AtStep == StepsOf(order)[Len(trace) + 1]

\* C5: the XML foreground that exists before a run does not exist once the
\* run has completed; one that does not exist is not created, and the run
\* does not fail at the removal for its absence.
C5_StaleXml ==
    /\ pc \in {"print", "done"} => ~tree.xml
    /\ ~start.xml =>
        /\ ~tree.xml
        /\ ~(pc = "aborted" /\ AtStep = Step("cleanup", fg_dir, XmlName))

\* a run that found the XML completed, and the XML is gone
C5_Witness == pc = "done" /\ start.xml /\ ~tree.xml /\ run = 1

\* C6: run twice in succession on an unchanged source, from any tree, the
\* second run leaves the tree the first run left: the same eleven PNG files
\* with the same contents, and no XML foreground.
C6_Idempotent ==
    (run >= 2 /\ pc = "done") =>
        /\ first = Some(tree)
        /\ \A p \in Paths : tree.files[p] # None /\ tree.files[p] # Some(Truncated)
        /\ ~tree.xml

\* the second run completed and left the tree the first run left
C6_Witness ==
    /\ run = 2
    /\ pc = "done"
    /\ first = Some(tree)
    /\ File(ForegroundPath).size = <<432, 432>>
    /\ File(ForegroundPath) # Stale

\* C7: when the source file is missing or is no image, the run aborts before
\* anything else: no directory is created, no file is written, the XML
\* foreground is not removed and nothing is printed.
C7_MissingSource ==
    ~Decodable(source) =>
        /\ pc \in {"open", "aborted"}
        /\ tree = start
        /\ trace = <<>>
        /\ out = <<>>

\* the run aborted on a missing source, in a tree without directories
C7_Witness ==
    /\ pc = "aborted"
    /\ source.kind = "missing"
    /\ tree.dirs = {}
    /\ out = <<>>

\* the paths the completed steps of this run wrote
SavedPaths == {<<trace[k][2], trace[k][3]>> : k \in {j \in 1..Len(trace) : trace[j][1] = "save"}}

\* the directories the completed steps of this run ensured
EnsuredDirs == {trace[k][2] : k \in {j \in 1..Len(trace) : trace[j][1] = "makedirs"}}

\* C8: an error of the file system aborts the run at the failing step: every
\* directory and file the steps before it made stays as written, no later
\* step has run (what they would write is as the run found it), and nothing
\* is printed; when the removal of the XML fails, all eleven PNG files are
\* written.
C8_AbortKeepsWritten ==
    (pc = "aborted" /\ Decodable(source)) =>
        /\ Len(out) = run - 1
        /\ \A p \in SavedPaths : Written(p)
        /\ EnsuredDirs \subseteq tree.dirs
        /\ \A p \in Paths \ (SavedPaths \cup {<<AtStep[2], AtStep[3]>>}) :
               tree.files[p] = start.files[p]
        /\ tree.dirs \subseteq start.dirs \cup EnsuredDirs \cup {res_dir}
        /\ tree.xml = start.xml
        /\ AtStep[1] = "cleanup" => \A p \in Paths : Written(p)

\* the removal of the XML failed, and the eleven files are written
C8_Witness ==
    /\ pc = "aborted"
    /\ AtStep = Step("cleanup", fg_dir, XmlName)
    /\ tree.xml
    /\ \A p \in Paths : Written(p)

\* the sequence s begins the sequence t
IsPrefix(s, t) == Len(s) <= Len(t) /\ \A k \in 1..Len(s) : s[k] = t[k]

\* C9: the steps of a run happen in the script's order: the source is
\* decoded, then each bucket's directory is ensured, its ic_launcher.png
\* written and its ic_launcher_round.png written, then the drawable directory
\* is ensured and the foreground written, then the XML is removed if there,
\* and the message is printed last and once: when it has been printed, the
\* ten bucket files and the foreground are written and the XML is absent.
C9_Order ==
    /\ IsPrefix(trace, StepsOf(order))
    /\ Len(out) = (IF pc = "done" THEN run ELSE run - 1)
    /\ \A k \in 1..Len(out) : out[k] = Message
    /\ pc = "done" =>
        /\ trace = StepsOf(order)
        /\ \A p \in Paths : Written(p)
        /\ ~tree.xml

\* the message printed as the twentieth and last step of a run that found
\* the XML
C9_Witness ==
    /\ pc = "done"
    /\ out = <<Message>>
    /\ Len(trace) = 20
    /\ trace[20] = Step("print", "", "")
    /\ start.xml

\* C10: the order of the buckets has no observable effect: the loaded image
\* is never changed after the load, and whatever the order the tree a run
\* leaves is the tree the dict's order leaves, each bucket's files being made
\* of the source and the bucket's edge length alone, in the bucket's own
\* directory.
C10_OrderIrrelevant ==
    /\ pc \notin {"open", "aborted"} => img = Some(Open(source))
    /\ resized # None =>
          \E d \in Densities : resized = Some(resize(Open(source), <<sizes[d], sizes[d]>>))
    /\ pc = "done" => tree = FinalTree(start, source)

\* a run completed that took the buckets largest first
C10_Witness ==
    /\ pc = "done"
    /\ order = <<"xxxhdpi", "xxhdpi", "xhdpi", "hdpi", "mdpi">>
    /\ tree = FinalTree(start, source)
    /\ start.xml

====
